---- MODULE Spec2Model ----
(***************************************************************************)
(* Model of the logic-circuit emulator (crates/emulator/src/emulator.rs)   *)
(* and of its harness (crates/testing/src/main.rs).                        *)
(*                                                                         *)
(* A Component is a record:                                                *)
(*   [kind |-> "Input", index |-> i]                                       *)
(*   [kind |-> "Not",   gate |-> [input  |-> c]]                           *)
(*   [kind |-> "Or" | "And" | "Xor", gate |-> [inputs |-> <<c1, ..>>]]     *)
(* Rust vectors and slices are 0-based, TLA+ sequences 1-based: the Rust   *)
(* element v[k] is the TLA+ element v[k + 1].                              *)
(* A Result is [tag |-> "Ok", value |-> v] or [tag |-> "Err", error |-> e];*)
(* a panic is [tag |-> "Panic"].                                           *)
(***************************************************************************)
EXTENDS Integers, Sequences, FiniteSets, TLC

VARIABLES stack, emu, call, status

vars == <<stack, emu, call, status>>

\* ------------------------------------------------------------------ bounds
\* Largest leaf index the caller writes.
MaxIndex == 1
\* Largest number of nodes the caller holds while building a component.
MaxNodes == 4
\* Largest number of operands handed to an n-ary constructor.
MaxOperands == 3
\* Largest input_count handed to Emulator::new.
MaxInputCount == 2
\* Longest assignment handed to Emulator::emulate.
MaxAssignLen == 3

\* Largest number of nodes of a component whose truth table is taken.
TableNodes == 3
\* Largest input_count of a circuit whose truth table is asked for.
TableInputCount == 8

\* -------------------------------------------------------- program constants
\* size_of::<usize>() on a 64-bit target (bytes).
SizeOfUsize == 8
\* usize::BITS on a 64-bit target.
UsizeBits == 8 * SizeOfUsize

None == [tag |-> "None"]
Panic == [tag |-> "Panic"]
Ok(v) == [tag |-> "Ok", value |-> v]
Err(e) == [tag |-> "Err", error |-> e]

InputOutOfBounds(index, input_count) ==
    [kind |-> "InputOutOfBounds", index |-> index, input_count |-> input_count]

InvalidInputCount(supplied, expected) ==
    [kind |-> "InvalidInputCount", supplied |-> supplied, expected |-> expected]

RECURSIVE Component_check_bounds(_, _)
RECURSIVE NotGate_check_bounds(_, _)
RECURSIVE OrGate_check_bounds(_, _)
RECURSIVE AndGate_check_bounds(_, _)
RECURSIVE XorGate_check_bounds(_, _)
RECURSIVE OrGate_emulate(_, _)
RECURSIVE AndGate_emulate(_, _)
RECURSIVE XorGate_emulate(_, _)
RECURSIVE OrGate_check_bounds_from(_, _, _)
RECURSIVE AndGate_check_bounds_from(_, _, _)
RECURSIVE XorGate_check_bounds_from(_, _, _)
RECURSIVE Component_emulate(_, _)
RECURSIVE NotGate_emulate(_, _)
RECURSIVE OrGate_emulate_from(_, _, _)
RECURSIVE AndGate_emulate_from(_, _, _)
RECURSIVE XorGate_emulate_from(_, _, _, _)
RECURSIVE emulate_all_bits(_, _, _, _)
RECURSIVE emulate_all_range(_, _, _, _)
RECURSIVE fmt_header(_, _)
RECURSIVE fmt_bits(_, _, _)
RECURSIVE fmt_rows(_, _, _)
RECURSIVE Decimal(_)
RECURSIVE Pow(_, _)
RECURSIVE NodeCount(_)
RECURSIVE Nodes(_)
RECURSIVE Leaves(_)
RECURSIVE OperandLeaves(_, _)
RECURSIVE OperandNodes(_, _)

\* ------------------------------------------------------------ constructors
input(index) == [kind |-> "Input", index |-> index]

not(component) == [kind |-> "Not", gate |-> [input |-> component]]

\* or: collects the operands in order, asserts len > 1.
or(components) ==
    LET inputs == components
    IN  IF ~(Len(inputs) > 1) THEN Panic
        ELSE [kind |-> "Or", gate |-> [inputs |-> inputs]]

and(components) ==
    LET inputs == components
    IN  IF ~(Len(inputs) > 1) THEN Panic
        ELSE [kind |-> "And", gate |-> [inputs |-> inputs]]

xor_one_operand(components) ==
    LET inputs == components
    IN  IF ~(Len(inputs) > 0) THEN Panic
        ELSE [kind |-> "Xor", gate |-> [inputs |-> inputs]]

xor(components) ==
    LET inputs == components
    IN  IF ~(Len(inputs) > 1) THEN Panic
        ELSE [kind |-> "Xor", gate |-> [inputs |-> inputs]]

\* -------------------------------------------------------------- validation
\* The `>` in place of `>=` slip.
Component_check_bounds_off_by_one(self, input_count) ==
    CASE self.kind = "Input" ->
            IF self.index > input_count
            THEN Err(InputOutOfBounds(self.index, input_count))
            ELSE Ok(<<>>)
      [] self.kind = "Not" -> NotGate_check_bounds(self.gate, input_count)
      [] self.kind = "Or"  -> OrGate_check_bounds(self.gate, input_count)
      [] self.kind = "And" -> AndGate_check_bounds(self.gate, input_count)
      [] self.kind = "Xor" -> XorGate_check_bounds(self.gate, input_count)

Component_check_bounds(self, input_count) ==
    CASE self.kind = "Input" ->
            IF self.index >= input_count
            THEN Err(InputOutOfBounds(self.index, input_count))
            ELSE Ok(<<>>)
      [] self.kind = "Not" -> NotGate_check_bounds(self.gate, input_count)
      [] self.kind = "Or"  -> OrGate_check_bounds(self.gate, input_count)
      [] self.kind = "And" -> AndGate_check_bounds(self.gate, input_count)
      [] self.kind = "Xor" -> XorGate_check_bounds(self.gate, input_count)

NotGate_check_bounds(self, input_count) ==
    Component_check_bounds(self.input, input_count)

\* A loop that goes on after a failure and returns the last one.
OrGate_check_bounds_last(self, i, input_count, r) ==
    IF OrGate_check_bounds_from(self, i + 1, input_count).tag = "Err"
    THEN OrGate_check_bounds_from(self, i + 1, input_count)
    ELSE r

\* `?` on the result r of the i-th operand: return r when it is an Err.
OrGate_check_bounds_try(self, i, input_count, r) ==
    IF r.tag = "Err" THEN r ELSE OrGate_check_bounds_from(self, i + 1, input_count)

\* for input in &self.inputs { input.check_bounds(input_count)?; } Ok(())
\* from the i-th operand on.
OrGate_check_bounds_from(self, i, input_count) ==
    IF i > Len(self.inputs) THEN Ok(<<>>)
    ELSE OrGate_check_bounds_try(self, i, input_count,
             Component_check_bounds(self.inputs[i], input_count))

OrGate_check_bounds(self, input_count) ==
    OrGate_check_bounds_from(self, 1, input_count)

AndGate_check_bounds_try(self, i, input_count, r) ==
    IF r.tag = "Err" THEN r ELSE AndGate_check_bounds_from(self, i + 1, input_count)

AndGate_check_bounds_from(self, i, input_count) ==
    IF i > Len(self.inputs) THEN Ok(<<>>)
    ELSE AndGate_check_bounds_try(self, i, input_count,
             Component_check_bounds(self.inputs[i], input_count))

AndGate_check_bounds(self, input_count) ==
    AndGate_check_bounds_from(self, 1, input_count)

XorGate_check_bounds_try(self, i, input_count, r) ==
    IF r.tag = "Err" THEN r ELSE XorGate_check_bounds_from(self, i + 1, input_count)

XorGate_check_bounds_from(self, i, input_count) ==
    IF i > Len(self.inputs) THEN Ok(<<>>)
    ELSE XorGate_check_bounds_try(self, i, input_count,
             Component_check_bounds(self.inputs[i], input_count))

XorGate_check_bounds(self, input_count) ==
    XorGate_check_bounds_from(self, 1, input_count)

\* -------------------------------------------------------------- evaluation
\* The outcome of evaluating a node: `panic` is the out-of-range slice read,
\* `value` the boolean returned, `reads` the input indices read and `visited`
\* the number of Component::emulate calls made.
Outcome(panic, value, reads, visited) ==
    [panic |-> panic, value |-> value, reads |-> reads, visited |-> visited]

\* The outcome r of a child, then the outcome rest of what follows it.
Then(r, rest) ==
    Outcome(rest.panic, rest.value, r.reads \cup rest.reads, r.visited + rest.visited)

Returned(value) == Outcome(FALSE, value, {}, 0)

\* One more Component::emulate call made.
Visited(r) == Outcome(r.panic, r.value, r.reads, r.visited + 1)

Component_emulate(self, inputs) ==
    Visited(CASE self.kind = "Input" ->
                    IF self.index < Len(inputs)
                    THEN Outcome(FALSE, inputs[self.index + 1], {self.index}, 0)
                    ELSE Outcome(TRUE, FALSE, {self.index}, 0)
              [] self.kind = "Not" -> NotGate_emulate(self.gate, inputs)
              [] self.kind = "Or"  -> OrGate_emulate(self.gate, inputs)
              [] self.kind = "And" -> AndGate_emulate(self.gate, inputs)
              [] self.kind = "Xor" -> XorGate_emulate(self.gate, inputs))

\* !r
Negated(r) == IF r.panic THEN r ELSE Outcome(FALSE, ~r.value, r.reads, r.visited)

NotGate_emulate(self, inputs) ==
    Negated(Component_emulate(self.input, inputs))

\* Returns the first operand's value, whatever it is.
OrGate_emulate_first(self, i, inputs, r) ==
    IF r.panic THEN r ELSE Then(r, Returned(r.value))

\* if input.emulate(inputs) { return true; } with r the i-th operand's outcome.
OrGate_emulate_if(self, i, inputs, r) ==
    IF r.panic THEN r
    ELSE IF r.value THEN Then(r, Returned(TRUE))
    ELSE Then(r, OrGate_emulate_from(self, i + 1, inputs))

\* for input in &self.inputs { .. } false, from the i-th operand on.
OrGate_emulate_from(self, i, inputs) ==
    IF i > Len(self.inputs) THEN Returned(FALSE)
    ELSE OrGate_emulate_if(self, i, inputs, Component_emulate(self.inputs[i], inputs))

OrGate_emulate(self, inputs) == OrGate_emulate_from(self, 1, inputs)

\* if !input.emulate(inputs) { return false; } with r the i-th operand's outcome.
AndGate_emulate_if(self, i, inputs, r) ==
    IF r.panic THEN r
    ELSE IF ~r.value THEN Then(r, Returned(FALSE))
    ELSE Then(r, AndGate_emulate_from(self, i + 1, inputs))

\* for input in &self.inputs { .. } true, from the i-th operand on.
AndGate_emulate_from(self, i, inputs) ==
    IF i > Len(self.inputs) THEN Returned(TRUE)
    ELSE AndGate_emulate_if(self, i, inputs, Component_emulate(self.inputs[i], inputs))

AndGate_emulate(self, inputs) == AndGate_emulate_from(self, 1, inputs)

\* Iterated parity in place of one-hot.
XorGate_emulate_parity(self, i, check, inputs, result) ==
    IF result.panic THEN result
    ELSE Then(result, XorGate_emulate_from(self, i + 1, check # result.value, inputs))

\* The body of the loop of XorGate::emulate, with `result` the i-th operand's
\* outcome and `check` as it is when the loop gets there.
XorGate_emulate_body(self, i, check, inputs, result) ==
    IF result.panic THEN result
    ELSE IF result.value /\ check THEN Then(result, Returned(FALSE))
    ELSE Then(result, XorGate_emulate_from(self, i + 1,
                                           IF result.value THEN TRUE ELSE check,
                                           inputs))

\* for input in &self.inputs { .. } check, from the i-th operand on.
XorGate_emulate_from(self, i, check, inputs) ==
    IF i > Len(self.inputs) THEN Returned(check)
    ELSE XorGate_emulate_body(self, i, check, inputs,
                              Component_emulate(self.inputs[i], inputs))

XorGate_emulate(self, inputs) == XorGate_emulate_from(self, 1, FALSE, inputs)

\* ---------------------------------------------------------------- Emulator
\* The result of check_bounds dropped: no `?`.
Emulator_new_unchecked(input_count, component, r) ==
    Ok([input_count |-> input_count, component |-> component])

\* `?` on the result r of check_bounds, then Ok(Self { input_count, component }).
Emulator_new_try(input_count, component, r) ==
    IF r.tag = "Err" THEN r
    ELSE Ok([input_count |-> input_count, component |-> component])

Emulator_new(input_count, component) ==
    Emulator_new_try(input_count, component,
                     Component_check_bounds(component, input_count))

\* The result of a call with the reads and visits it made.
Emulation(result, reads, visited) ==
    [result |-> result, reads |-> reads, visited |-> visited]

\* Ok(r) of the outcome r of self.component.emulate(inputs).
Emulator_emulate_ok(r) ==
    Emulation(IF r.panic THEN Panic ELSE Ok(r.value), r.reads, r.visited)

Emulator_emulate_swapped(self, inputs) ==
    IF self.input_count # Len(inputs)
    THEN Emulation(Err(InvalidInputCount(self.input_count, Len(inputs))), {}, 0)
    ELSE Emulator_emulate_ok(Component_emulate(self.component, inputs))

Emulator_emulate(self, inputs) ==
    IF self.input_count # Len(inputs)
    THEN Emulation(Err(InvalidInputCount(Len(inputs), self.input_count)), {}, 0)
    ELSE Emulator_emulate_ok(Component_emulate(self.component, inputs))

\* base.pow(exp) for the small exponents the assertion lets through.
Pow(base, exp) == IF exp = 0 THEN 1 ELSE base * Pow(base, exp - 1)

\* (i >> bit_offset) & 1
Bit(i, bit_offset) == (i \div Pow(2, bit_offset)) % 2

\* Least significant bit at input 0.
emulate_all_bits_lsb_first(self, inputs, i, bit_offset) ==
    IF bit_offset >= self.input_count THEN inputs
    ELSE emulate_all_bits(self,
             [inputs EXCEPT ![bit_offset + 1] = (Bit(i, bit_offset) # 0)],
             i, bit_offset + 1)

\* for bit_offset in 0..self.input_count { inputs[input_count - bit_offset - 1] = .. }
\* from bit_offset on; `inputs` is the vector the loop writes into.
emulate_all_bits(self, inputs, i, bit_offset) ==
    IF bit_offset >= self.input_count THEN inputs
    ELSE emulate_all_bits(self,
             [inputs EXCEPT ![(self.input_count - bit_offset - 1) + 1] =
                                (Bit(i, bit_offset) # 0)],
             i, bit_offset + 1)

\* let state = self.emulate(&inputs)?; result.states.push(state);
\* `st` is the loop's state before, `state` what self.emulate returned.
emulate_all_push(st, inputs, state) ==
    [inputs  |-> inputs,
     result  |-> IF state.result.tag = "Ok"
                 THEN [input_count |-> st.result.input_count,
                       states |-> Append(st.result.states, state.result.value)]
                 ELSE st.result,
     ret     |-> IF state.result.tag = "Ok" THEN None ELSE state.result,
     reads   |-> st.reads \cup state.reads,
     visited |-> st.visited + state.visited]

\* self.emulate(&inputs) on the vector the inner loop has written.
emulate_all_emulate(self, st, inputs) ==
    emulate_all_push(st, inputs, Emulator_emulate(self, inputs))

\* One iteration of `for i in 0..count`: st.inputs is the vector left by the
\* previous iteration, st.result the table built so far, st.ret the early
\* return of `?` once taken.
emulate_all_step(self, i, st) ==
    emulate_all_emulate(self, st, emulate_all_bits(self, st.inputs, i, 0))

\* The iterations lo <= i < hi in increasing order, the first half of the
\* range and then the second; nothing runs after an early return.
emulate_all_range(self, lo, hi, st) ==
    IF st.ret # None \/ lo >= hi THEN st
    ELSE IF hi = lo + 1 THEN emulate_all_step(self, lo, st)
    ELSE emulate_all_range(self, lo + ((hi - lo) \div 2), hi,
             emulate_all_range(self, lo, lo + ((hi - lo) \div 2), st))

\* Ok(result) after the loop, or the early return.
emulate_all_end(end) ==
    Emulation(IF end.ret # None THEN end.ret ELSE Ok(end.result),
              end.reads, end.visited)

Emulator_emulate_all(self) ==
    IF ~(self.input_count < SizeOfUsize) THEN Emulation(Panic, {}, 0)
    ELSE emulate_all_end(
             emulate_all_range(self, 0, Pow(2, self.input_count),
                 [inputs  |-> [k \in 1..self.input_count |-> FALSE],
                  result  |-> [input_count |-> self.input_count, states |-> <<>>],
                  ret     |-> None,
                  reads   |-> {},
                  visited |-> 0]))

\* ----------------------------------------------------------------- Display
DigitChars == <<"0", "1", "2", "3", "4", "5", "6", "7", "8", "9">>

\* {n}: the decimal digits of n.
Decimal(n) ==
    IF n < 10 THEN <<DigitChars[n + 1]>>
    ELSE Decimal(n \div 10) \o <<DigitChars[(n % 10) + 1]>>

\* {n:<width}: left-aligned, padded with spaces on the right up to width.
PadLeftAligned(chars, width) ==
    chars \o [k \in 1..(IF Len(chars) < width THEN width - Len(chars) ELSE 0) |-> " "]

\* for i in 0..self.input_count { write "I{i:<2} " }, from i on.
fmt_header(self, i) ==
    IF i >= self.input_count THEN <<>>
    ELSE <<"I">> \o PadLeftAligned(Decimal(i), 2) \o <<" ">> \o fmt_header(self, i + 1)

\* Ascending bit offsets: least significant bit in the first column.
fmt_bits_ascending(self, i, n) ==
    IF n = 0 THEN <<>>
    ELSE fmt_bits(self, i, n - 1) \o Decimal(Bit(i, n - 1)) \o <<" ", " ", " ">>

\* for bit_offset in (0..self.input_count).rev() { write "{bit}   " }, the n
\* offsets n-1, n-2, .., 0 that are left.
fmt_bits(self, i, n) ==
    IF n = 0 THEN <<>>
    ELSE Decimal(Bit(i, n - 1)) \o <<" ", " ", " ">> \o fmt_bits(self, i, n - 1)

\* The row written for (i, state) of self.states.iter().enumerate().
fmt_row(self, i) ==
    fmt_bits(self, i, self.input_count)
    \o (IF self.states[i + 1] THEN <<"1">> ELSE <<"0">>)
    \o <<"\n">>

\* for (i, state) in self.states.iter().enumerate() { .. }: the rows of
\* lo <= i < hi in increasing order, the first half and then the second.
fmt_rows(self, lo, hi) ==
    IF lo >= hi THEN <<>>
    ELSE IF hi = lo + 1 THEN fmt_row(self, lo)
    ELSE fmt_rows(self, lo, lo + ((hi - lo) \div 2))
         \o fmt_rows(self, lo + ((hi - lo) \div 2), hi)

EmulationResult_fmt(self) ==
    fmt_header(self, 0) \o <<"O", "1", "\n">> \o fmt_rows(self, 0, Len(self.states))

\* ------------------------------------------------------------------ harness
\* and([input(0), or([input(1), input(2)]), not(input(3))])
MainComponent == and(<<input(0), or(<<input(1), input(2)>>), not(input(3))>>)

IsPanic(x) == ("tag" \in DOMAIN x) /\ x.tag = "Panic"

\* ------------------------------------------------------------------- caller
NodeCount(c) ==
    CASE c.kind = "Input" -> 1
      [] c.kind = "Not" -> 1 + NodeCount(c.gate.input)
      [] OTHER -> 1 + OperandNodes(c.gate.inputs, 1)

OperandNodes(cs, i) ==
    IF i > Len(cs) THEN 0 ELSE NodeCount(cs[i]) + OperandNodes(cs, i + 1)

Assignments ==
    UNION {[1..n -> BOOLEAN] : n \in 0..MaxAssignLen}

Init ==
    /\ stack = <<>>
    /\ emu = None
    /\ call = [op |-> "start"]
    /\ status = "running"

\* The caller holds the operands of the expression being built on `stack`,
\* at most `nodes` nodes in all, until it hands the component to Emulator::new.
Building(nodes) ==
    /\ status = "running"
    /\ emu = None
    /\ OperandNodes(stack, 1) < nodes

\* input(index)
Input(nodes) ==
    \E index \in 0..MaxIndex :
        /\ Building(nodes)
        /\ Len(stack) < MaxOperands
        /\ stack' = Append(stack, input(index))
        /\ call' = [op |-> "input", index |-> index, result |-> input(index)]
        /\ UNCHANGED <<emu, status>>

\* not(component) on the last operand held.
Not(nodes) ==
    /\ Building(nodes)
    /\ Len(stack) >= 1
    /\ stack' = Append(SubSeq(stack, 1, Len(stack) - 1), not(stack[Len(stack)]))
    /\ call' = [op |-> "not", component |-> stack[Len(stack)],
                result |-> not(stack[Len(stack)])]
    /\ UNCHANGED <<emu, status>>

\* The last n operands held, in order.
Operands(n) == SubSeq(stack, Len(stack) - n + 1, Len(stack))

\* An n-ary constructor returned `result` (a gate, or a panic) for the last n
\* operands held.
Constructed(op, n, result) ==
    /\ call' = [op |-> op, components |-> Operands(n), result |-> result]
    /\ IF IsPanic(result)
       THEN /\ status' = "panicked"
            /\ stack' = SubSeq(stack, 1, Len(stack) - n)
       ELSE /\ status' = status
            /\ stack' = Append(SubSeq(stack, 1, Len(stack) - n), result)
    /\ UNCHANGED emu

Or(nodes) ==
    \E n \in 0..MaxOperands :
        /\ Building(nodes)
        /\ n <= Len(stack)
        /\ Constructed("or", n, or(Operands(n)))

And(nodes) ==
    \E n \in 0..MaxOperands :
        /\ Building(nodes)
        /\ n <= Len(stack)
        /\ Constructed("and", n, and(Operands(n)))

Xor(nodes) ==
    \E n \in 0..MaxOperands :
        /\ Building(nodes)
        /\ n <= Len(stack)
        /\ Constructed("xor", n, xor(Operands(n)))

New_returns(input_count, component, r) ==
    /\ call' = [op |-> "new", input_count |-> input_count,
                component |-> component, result |-> r]
    /\ emu' = IF r.tag = "Ok" THEN r.value ELSE None

\* Emulator::new(input_count, component) on the component built.
New(counts) ==
    \E input_count \in 0..counts :
        /\ status = "running"
        /\ emu = None
        /\ Len(stack) = 1
        /\ New_returns(input_count, stack[1], Emulator_new(input_count, stack[1]))
        /\ stack' = <<>>
        /\ UNCHANGED status

call_input == Input(MaxNodes)
call_not == Not(MaxNodes)
call_or == Or(MaxNodes)
call_and == And(MaxNodes)
call_xor == Xor(MaxNodes)
call_new == New(MaxInputCount)

call_emulate_returns(inputs, r) ==
    /\ call' = [op |-> "emulate", inputs |-> inputs, result |-> r.result,
                reads |-> r.reads, visited |-> r.visited]
    /\ status' = IF r.result.tag = "Panic" THEN "panicked" ELSE status

call_emulate ==
    \E inputs \in Assignments :
        /\ status = "running"
        /\ emu # None
        /\ call_emulate_returns(inputs, Emulator_emulate(emu, inputs))
        /\ UNCHANGED <<stack, emu>>

call_emulate_all_returns(r) ==
    /\ call' = [op |-> "emulate_all", result |-> r.result,
                reads |-> r.reads, visited |-> r.visited]
    /\ status' = IF r.result.tag = "Panic" THEN "panicked" ELSE status

call_emulate_all ==
    /\ status = "running"
    /\ emu # None
    /\ call_emulate_all_returns(Emulator_emulate_all(emu))
    /\ UNCHANGED <<stack, emu>>

\* The caller formats the EmulationResult that emulate_all just returned.
call_fmt ==
    /\ status = "running"
    /\ call.op = "emulate_all"
    /\ call.result.tag = "Ok"
    /\ call' = [op |-> "fmt", self |-> call.result.value,
                output |-> EmulationResult_fmt(call.result.value)]
    /\ UNCHANGED <<stack, emu, status>>

\* main: Emulator::new(4, ..).unwrap(); println!("{}", emu.emulate_all().unwrap())
\* run from the program's start; unwrap panics on anything but Ok.
main_println(new, all) ==
    /\ emu' = IF new.tag = "Ok" THEN new.value ELSE None
    /\ status' = IF all.result.tag = "Ok" THEN "running" ELSE "panicked"
    /\ call' = [op |-> "main", result |-> all.result,
                reads |-> all.reads, visited |-> all.visited,
                output |-> IF all.result.tag = "Ok"
                           THEN EmulationResult_fmt(all.result.value) \o <<"\n">>
                           ELSE <<>>]

main_emulate_all(new) ==
    main_println(new, IF new.tag = "Ok" THEN Emulator_emulate_all(new.value)
                      ELSE Emulation(Panic, {}, 0))

main ==
    /\ status = "running"
    /\ call.op = "start"
    /\ main_emulate_all(IF IsPanic(MainComponent) THEN Panic
                        ELSE Emulator_new(4, MainComponent))
    /\ UNCHANGED stack

Next ==
    \/ call_input
    \/ call_not
    \/ call_or
    \/ call_and
    \/ call_xor
    \/ call_new
    \/ call_emulate
    \/ call_emulate_all
    \/ main

\* Circuits of a few nodes, short assignments, every call.
Spec == Init /\ [][Next]_vars

table_input == Input(TableNodes)
table_not == Not(TableNodes)
table_or == Or(TableNodes)
table_and == And(TableNodes)
table_xor == Xor(TableNodes)
table_new == New(TableInputCount)

NextTable ==
    \/ table_input
    \/ table_not
    \/ table_or
    \/ table_and
    \/ table_xor
    \/ table_new
    \/ call_emulate_all
    \/ call_fmt
    \/ main

\* Smaller circuits, every input count up to the one emulate_all refuses,
\* truth tables and their rendering.
SpecTable == Init /\ [][NextTable]_vars

\* ------------------------------------------------------------------ claims
\* Every node of the tree of c, c included.
Nodes(c) ==
    {c} \cup
    (CASE c.kind = "Input" -> {}
       [] c.kind = "Not" -> Nodes(c.gate.input)
       [] OTHER -> UNION {Nodes(c.gate.inputs[i]) : i \in 1..Len(c.gate.inputs)})

\* The leaf indices of c in depth-first, left-to-right order.
Leaves(c) ==
    CASE c.kind = "Input" -> <<c.index>>
      [] c.kind = "Not" -> Leaves(c.gate.input)
      [] OTHER -> OperandLeaves(c.gate.inputs, 1)

OperandLeaves(cs, i) ==
    IF i > Len(cs) THEN <<>> ELSE Leaves(cs[i]) \o OperandLeaves(cs, i + 1)

\* Bit b of i, b = 0 the least significant.
BitOf(i, b) == (i \div (2 ^ b)) % 2

\* The assignment of entry i of the table of an n-input circuit: bit b of i
\* at input index n-1-b.
AssignmentOf(n, i) == [k \in 1..n |-> BitOf(i, n - 1 - (k - 1)) = 1]

\* C1: emulate_all succeeds on every circuit it accepts and returns 2^N
\* entries in counter order; entry i is emulate on the assignment that puts
\* bit b of i at input N-1-b; the harness circuit has 16 entries, entry 10 true.
C1_TruthTable ==
    (call.op \in {"emulate_all", "main"} /\ emu # None) =>
        /\ (emu.input_count < SizeOfUsize) => call.result.tag = "Ok"
        /\ call.result.tag = "Ok" =>
              /\ call.result.value.input_count = emu.input_count
              /\ Len(call.result.value.states) = 2 ^ emu.input_count
              /\ \A i \in 0..((2 ^ emu.input_count) - 1) :
                    Emulator_emulate(emu, AssignmentOf(emu.input_count, i)).result
                        = Ok(call.result.value.states[i + 1])
        /\ call.op = "main" =>
              /\ emu.input_count = 4
              /\ emu.component =
                    [kind |-> "And", gate |-> [inputs |->
                        << [kind |-> "Input", index |-> 0],
                           [kind |-> "Or", gate |-> [inputs |->
                               << [kind |-> "Input", index |-> 1],
                                  [kind |-> "Input", index |-> 2] >>]],
                           [kind |-> "Not", gate |-> [input |->
                               [kind |-> "Input", index |-> 3]]] >>]]
              /\ call.result.tag = "Ok"
              /\ Len(call.result.value.states) = 16
              /\ AssignmentOf(4, 10) = <<TRUE, FALSE, TRUE, FALSE>>
              /\ call.result.value.states[10 + 1] = TRUE

C1_Witness ==
    /\ call.op = "main"
    /\ call.result.tag = "Ok"
    /\ Len(call.result.value.states) = 16
    /\ call.result.value.states[11]

\* The children of gate g that evaluate to true under inputs.
TrueOperands(g, inputs) ==
    {i \in 1..Len(g.gate.inputs) : Component_emulate(g.gate.inputs[i], inputs).value}

Emulated == call.op = "emulate" /\ call.result.tag = "Ok"

\* C2: a Xor gate is true iff exactly one child is true (one-hot).
C2_XorOneHot ==
    Emulated =>
        /\ \A g \in Nodes(emu.component) :
              g.kind = "Xor" =>
                  /\ Len(g.gate.inputs) >= 2
                  /\ Component_emulate(g, call.inputs).value
                        <=> (Cardinality(TrueOperands(g, call.inputs)) = 1)
        /\ emu.component.kind = "Xor" =>
              (call.result.value
                  <=> (Cardinality(TrueOperands(emu.component, call.inputs)) = 1))

C2_Witness ==
    /\ Emulated
    /\ emu.component.kind = "Xor"
    /\ Len(emu.component.gate.inputs) = 3
    /\ Cardinality(TrueOperands(emu.component, call.inputs)) = 3
    /\ call.result.value = FALSE

\* True iff some leaf of c has an index >= n.
OutOfRange(c, n) == \E k \in 1..Len(Leaves(c)) : Leaves(c)[k] >= n

\* C3: Emulator::new fails iff some leaf of the tree has index >= input_count.
C3_NewFailsIffOutOfRange ==
    call.op = "new" =>
        /\ call.result.tag \in {"Ok", "Err"}
        /\ (call.result.tag = "Err") <=> OutOfRange(call.component, call.input_count)
        /\ call.result.tag = "Err" => emu = None
        /\ call.result.tag = "Ok" =>
              /\ emu = call.result.value
              /\ emu = [input_count |-> call.input_count, component |-> call.component]

C3_Witness ==
    /\ call.op = "new"
    /\ call.result.tag = "Err"
    /\ call.component.kind = "Xor"
    /\ call.component.gate.inputs[1].kind = "Input"
    /\ call.component.gate.inputs[1].index < call.input_count
    /\ call.component.gate.inputs[2].kind = "Not"

\* C4: emulate_all aborts exactly when input_count is not less than the bit
\* width of usize.
C4_AbortsIffNotBelowBitWidth ==
    call.op = "emulate_all" =>
        ((call.result.tag = "Panic") <=> ~(emu.input_count < UsizeBits))

\* C5: emulate returns InvalidInputCount{supplied, expected} before the tree
\* is evaluated iff the assignment's length differs from input_count.
C5_LengthMismatch ==
    call.op = "emulate" =>
        /\ Len(call.inputs) # emu.input_count =>
              /\ call.result = Err(InvalidInputCount(Len(call.inputs), emu.input_count))
              /\ call.visited = 0
              /\ call.reads = {}
        /\ Len(call.inputs) = emu.input_count => call.result.tag # "Err"

C5_Witness ==
    /\ call.op = "emulate"
    /\ emu.input_count = 2
    /\ Len(call.inputs) = 3
    /\ call.result.tag = "Err"
    /\ call.result.error.supplied = 3
    /\ call.result.error.expected = 2

\* The first index >= n among the leaves, in their order.
FirstOutOfRange(leaves, n) ==
    leaves[CHOOSE k \in 1..Len(leaves) :
              /\ leaves[k] >= n
              /\ \A j \in 1..(k - 1) : leaves[j] < n]

\* C6: the bounds error carries the first out-of-range leaf of the depth-first,
\* left-to-right walk and the declared input_count.
C6_FirstViolation ==
    (call.op = "new" /\ call.result.tag = "Err") =>
        call.result.error =
            InputOutOfBounds(FirstOutOfRange(Leaves(call.component), call.input_count),
                             call.input_count)

C6_Witness ==
    /\ call.op = "new"
    /\ call.result.tag = "Err"
    /\ \E j, k \in 1..Len(Leaves(call.component)) :
          /\ j < k
          /\ Leaves(call.component)[j] >= call.input_count
          /\ Leaves(call.component)[k] >= call.input_count
          /\ Leaves(call.component)[j] # Leaves(call.component)[k]
          /\ call.result.error.index = Leaves(call.component)[j]

\* What the gate g is claimed to compute from its children's values.
GateValue(g, inputs) ==
    CASE g.kind = "Or"  -> TrueOperands(g, inputs) # {}
      [] g.kind = "And" -> TrueOperands(g, inputs) = 1..Len(g.gate.inputs)
      [] g.kind = "Not" -> ~Component_emulate(g.gate.input, inputs).value

\* C7: Or is true iff some child is, And iff all children are, Not negates.
C7_OrAndNot ==
    Emulated =>
        /\ \A g \in Nodes(emu.component) :
              g.kind \in {"Or", "And", "Not"} =>
                  (Component_emulate(g, call.inputs).value <=> GateValue(g, call.inputs))
        /\ emu.component.kind \in {"Or", "And", "Not"} =>
              (call.result.value <=> GateValue(emu.component, call.inputs))

C7_Witness ==
    /\ Emulated
    /\ emu.component.kind = "Or"
    /\ Len(emu.component.gate.inputs) = 3
    /\ TrueOperands(emu.component, call.inputs) = {3}
    /\ call.result.value = TRUE

GateKind(op) == CASE op = "or" -> "Or" [] op = "and" -> "And" [] op = "xor" -> "Xor"

\* C8: or, and, xor panic on 0 or 1 operands; on 2 or more they return a gate of
\* their kind holding the operands in the order supplied.
C8_Constructors ==
    call.op \in {"or", "and", "xor"} =>
        /\ IsPanic(call.result) <=> Len(call.components) <= 1
        /\ IsPanic(call.result) => status = "panicked"
        /\ ~IsPanic(call.result) =>
              /\ call.result.kind = GateKind(call.op)
              /\ call.result.gate.inputs = call.components
              /\ stack[Len(stack)] = call.result
              /\ status = "running"

C8_Witness ==
    /\ call.op = "xor"
    /\ Len(call.components) = 1
    /\ IsPanic(call.result)
    /\ status = "panicked"

NotSpace(c) == c # " "

\* The rendered text without its spaces.
Squeezed(output) == SelectSeq(output, NotSpace)

\* The position of the first line end of text.
FirstLineEnd(text) ==
    CHOOSE p \in 1..Len(text) :
        /\ text[p] = "\n"
        /\ \A q \in 1..(p - 1) : text[q] # "\n"

BitChar(b) == IF b THEN "1" ELSE "0"

\* The vector the enumerator hands to emulate for entry i of an n-input circuit.
EnumeratedInputs(n, i) ==
    emulate_all_bits([input_count |-> n], [k \in 1..n |-> FALSE], i, 0)

\* The header of text, squeezed, is I0 I1 .. I(n-1) and one more label.
HeaderRow(text, n) ==
    /\ \E p \in 1..Len(text) : text[p] = "\n"
    /\ FirstLineEnd(text) > 2 * n + 1
    /\ \A k \in 0..(n - 1) :
          /\ text[2 * k + 1] = "I"
          /\ text[2 * k + 2] = DigitChars[k + 1]
    /\ \A p \in (2 * n + 1)..(FirstLineEnd(text) - 1) : text[p] # "I"

\* After the header, text, squeezed, is one row of n + 1 digits per entry of
\* self.states, in order: the inputs of entry i by index, then its output.
EntryRows(text, self, n) ==
    /\ Len(text) = FirstLineEnd(text) + Len(self.states) * (n + 2)
    /\ \A i \in 0..(Len(self.states) - 1) :
          /\ \A k \in 0..(n - 1) :
                /\ text[FirstLineEnd(text) + i * (n + 2) + k + 1]
                      = BitChar(EnumeratedInputs(n, i)[k + 1])
                /\ text[FirstLineEnd(text) + i * (n + 2) + k + 1]
                      = BitChar(BitOf(i, n - 1 - k) = 1)
          /\ text[FirstLineEnd(text) + i * (n + 2) + n + 1] = BitChar(self.states[i + 1])
          /\ text[FirstLineEnd(text) + i * (n + 2) + n + 2] = "\n"

\* Every label and every digit of a row stands apart from the one before it.
ColumnsApart(output) ==
    \A p \in 2..Len(output) :
        (output[p] \notin {" ", "\n"} /\ output[p - 1] \notin {" ", "\n"}) =>
            (output[p - 1] \in {"I", "O"} /\ p < FirstLineEnd(output))

\* C9: the rendering is a header I0 .. I(N-1) and an output label, then one row
\* per entry in table order showing input k of the entry's assignment in
\* column k and the entry's output last.
C9_Rendering ==
    call.op = "fmt" =>
        /\ HeaderRow(Squeezed(call.output), call.self.input_count)
        /\ EntryRows(Squeezed(call.output), call.self, call.self.input_count)
        /\ ColumnsApart(call.output)

C9_Witness ==
    /\ call.op = "fmt"
    /\ call.self.input_count = 3
    /\ Len(call.self.states) = 8
    /\ \E i, j \in 1..8 : call.self.states[i] /\ ~call.self.states[j]

\* No read of the assignment is out of range and no call panics on one.
ReadsInRange ==
    /\ call.op = "emulate" =>
          /\ call.result.tag # "Panic"
          /\ \A index \in call.reads : index < Len(call.inputs)
    /\ call.op \in {"emulate_all", "main"} =>
          /\ \A index \in call.reads : index < emu.input_count
          /\ call.result.tag = "Panic" =>
                (call.reads = {} /\ ~(emu.input_count < SizeOfUsize))

\* C10: on a constructed circuit every leaf that emulate and emulate_all read
\* is below the assignment's length, and no call changes the circuit.
C10_ReadsInRangeCircuitUnchanged ==
    /\ []ReadsInRange
    /\ [][emu # None => emu' = emu]_vars

C10_Witness ==
    /\ call.op = "emulate"
    /\ call.result.tag = "Ok"
    /\ emu.input_count = 2
    /\ (emu.input_count - 1) \in call.reads
====
